---- MODULE Spec2Model ----
(***************************************************************************)
(* A model of the example scripts of AgenticDevelopments that carry        *)
(* control flow of their own: the consumers of the Google ADK event stream *)
(* (job application, travel planner, AI consultant, legal team, customer   *)
(* support, Self-RAG), the ReAct loop of phi-experiments/aisAgents.py, the *)
(* document graders of SelfRag.py and the small HTTP/file tool wrappers.   *)
(*                                                                         *)
(* The scripts are independent programs.  One behaviour of the model runs  *)
(* one of them: Init picks `prog`, and only the actions of that program    *)
(* are enabled afterwards.                                                 *)
(***************************************************************************)
EXTENDS Integers, Sequences, FiniteSets, TLC

VARIABLES
    prog,           \* the script this behaviour runs
    pc,             \* position of the running function
    ret,            \* the value the function returned (NoneVal before that)
    \* --- ADK event-stream consumers ---
    agentIdx,       \* index in sub_agents of the sub-agent now running
    nonFinal,       \* non-final events the running sub-agent has yielded
    lastEvent,      \* the event the `async for` body handled last
    stream_ended,   \* the `async for` ran out of events
    files,          \* files written so far, in the order of the writes
    final_results,  \* run_job_application_workflow: authors stored in final_results
    \* --- phi-experiments Agent ---
    query,          \* the `query` argument of run_loop_and_compare
    attempt,        \* run_loop_and_compare: the for-loop variable
    results,        \* run_loop_and_compare: the list `results`
    i,              \* run_single_loop: the loop counter
    next_prompt,    \* run_single_loop: kind of the prompt sent next
    llm_calls,      \* calls of llm.generate_response within the current loop
    messages,       \* Agent.messages, as the sequence of roles
    \* --- SelfRag graders ---
    documents,      \* grade_documents_tool: the `documents` argument
    responses,      \* per grading request: what the LLM API answered
    scores,         \* per grading request: what llm_json_request returned
    completed,      \* the order in which the grading requests completed
    \* --- Self-RAG agent ---
    tool_calls,     \* the tools invoked so far, in order: the "--- Tool Call" lines
    grades,         \* what grade_hallucination_tool returned (line 164), in order
    \* --- tool wrappers ---
    wrapper,        \* the wrapper function that was called
    \* --- Multimodal.py _upload_video_if_not_exists ---
    video_exists,   \* video_path.exists()
    remote_exists,  \* a remote file of the derived name exists when the call begins
    video_file,     \* state.name of the local variable video_file
    wait_time,      \* the local variable wait_time
    polls,          \* client.files.get calls made by the waiting loop
    uploads,        \* client.files.upload calls made
    outcome,        \* the return statement the call left through
    \* --- Tools/arxiv.py ---
    dl_args,        \* arguments of download_papers_with_retry
    dl_log,         \* how each call of download_papers so far ended, in order
    dl_env,         \* what the file system and the network did during the last call
    dl_run,         \* who called: "import" (line 4 of the script importing the file
                    \* itself), "main" (the script body proper) or "call" (a caller)
    dl_calls        \* calls of download_papers since the program started

vars == <<prog, pc, ret, agentIdx, nonFinal, lastEvent, stream_ended, files,
          final_results, query, attempt, results, i, next_prompt, llm_calls, messages,
          documents, responses, scores, completed,
          tool_calls, grades, wrapper,
          video_exists, remote_exists, video_file, wait_time, polls, uploads, outcome,
          dl_args, dl_log, dl_env, dl_run, dl_calls>>

streamVars == <<agentIdx, nonFinal, lastEvent, stream_ended, files, final_results>>
agentVars  == <<query, attempt, results, i, next_prompt, llm_calls, messages>>
gradeVars  == <<documents, responses, scores, completed>>
ragVars    == <<tool_calls, grades>>
videoVars  == <<video_exists, remote_exists, video_file, wait_time, polls, uploads, outcome>>
paperVars  == <<dl_args, dl_log, dl_env, dl_run, dl_calls>>

(***************************************************************************)
(* Bounds of the model.                                                    *)
(***************************************************************************)
\* non-final events (function calls, function responses, partial chunks)
\* one sub-agent may yield before its final response
MaxNonFinal == 2
\* documents handed to grade_documents_tool
MaxDocs == 3
\* tool invocations of one Self-RAG run
MaxToolCalls == 4

(***************************************************************************)
(* Values.                                                                 *)
(***************************************************************************)
\* Python's None
NoneVal == <<"None">>
\* a str literal of the source
Str(s) == <<"str", s>>
\* event.content.parts[0].text of an event
TextOf(e) ==
    IF e.content \in {"text", "partial"} THEN <<"text", e.author, e.final>> ELSE NoneVal
\* an exception that left the function
Raised(what) == <<"raised", what>>

NoEvent == [author |-> "none", final |-> FALSE, content |-> "none"]

(***************************************************************************)
(* The sequential pipelines: sub_agents of each SequentialAgent.           *)
(***************************************************************************)
JobSubAgentsSwapped ==
    <<"tech_job_researcher", "personal_profiler", "interview_preparer", "resume_strategist">>

JobSubAgents ==
    <<"tech_job_researcher", "personal_profiler", "resume_strategist", "interview_preparer">>

TravelSubAgents ==
    <<"Destination_Expert_Agent", "Itinerary_Creator_Agent", "Budget_Analyst_Agent",
      "Report_Writer_Agent">>

ConsultantSubAgents == <<"ResearchAgent", "AnalysisAgent", "StrategyAgent">>

LegalSubAgents == <<"LegalResearcher", "ContractAnalyst", "LegalStrategist">>

SupportSubAgents == <<"support_agent", "qa_agent">>

SubAgents(p) ==
    CASE p = "job"        -> JobSubAgents
      [] p = "travel"     -> TravelSubAgents
      [] p = "consultant" -> ConsultantSubAgents
      [] p = "legal"      -> LegalSubAgents
      [] p = "support"    -> SupportSubAgents
      [] OTHER            -> <<>>

Last(s) == s[Len(s)]

(***************************************************************************)
(* runner.run_async over a SequentialAgent: the sub-agents run one after   *)
(* another in the order of sub_agents.  A sub-agent yields non-final       *)
(* events (content "call": a function call or response, whose              *)
(* parts[0].text is None; content "partial": a streamed chunk of text) and *)
(* ends with one event for which is_final_response() is true; that event   *)
(* carries text, or no content at all.  The next sub-agent starts after    *)
(* it.  The stream may also end at any point (StopAsyncIteration), for     *)
(* instance when a sub-agent yields nothing.                               *)
(***************************************************************************)
RunnerEvents(agents) ==
    IF agentIdx > Len(agents) THEN {}
    ELSE {[author |-> agents[agentIdx], final |-> TRUE, content |-> c] : c \in {"text", "none"}}
         \cup (IF nonFinal < MaxNonFinal
               THEN {[author |-> agents[agentIdx], final |-> FALSE, content |-> c] :
                        c \in {"call", "partial"}}
               ELSE {})

\* the stream moves on past event e
Yield(e) ==
    /\ lastEvent' = e
    /\ agentIdx' = IF e.final THEN agentIdx + 1 ELSE agentIdx
    /\ nonFinal' = IF e.final THEN 0 ELSE nonFinal + 1
    /\ UNCHANGED stream_ended

\* the stream has no further event: the `async for` ends without break
StreamEnds ==
    /\ stream_ended' = TRUE
    /\ UNCHANGED <<agentIdx, nonFinal, lastEvent>>

\* event.is_final_response(): the method, called
is_final_response(e) == e.final

\* event.is_final_response: the bound method, not called; any object is truthy
is_final_response_attr(e) == TRUE

(***************************************************************************)
(* run_job_application_workflow: one iteration of the `async for` body,    *)
(* or the runner raising into the except clause.                           *)
(***************************************************************************)
run_job_application_workflow ==
    /\ prog = "job" /\ pc = "run"
    /\ UNCHANGED <<prog, agentVars, gradeVars, ragVars, wrapper, videoVars, paperVars>>
    /\ \/ \E e \in RunnerEvents(SubAgents(prog)), writeOk \in BOOLEAN :
            /\ Yield(e)
            /\ IF ~is_final_response(e)
               THEN UNCHANGED <<pc, ret, files, final_results>>
               ELSE IF e.content = "none"
               THEN \* event.content is None: AttributeError, caught by the except clause
                    /\ pc' = "returned" /\ ret' = NoneVal
                    /\ UNCHANGED <<files, final_results>>
               ELSE /\ final_results' = final_results \cup {e.author}
                    /\ IF e.author = "resume_strategist"
                       THEN IF writeOk
                            THEN /\ files' = Append(files, "tailored_resume.md")
                                 /\ UNCHANGED <<pc, ret>>
                            ELSE /\ pc' = "returned" /\ ret' = NoneVal
                                 /\ UNCHANGED files
                       ELSE IF e.author = "interview_preparer"
                       THEN IF writeOk
                            THEN /\ files' = Append(files, "interview_materials.md")
                                 /\ pc' = "returned" /\ ret' = <<"final_results">>
                            ELSE /\ pc' = "returned" /\ ret' = NoneVal
                                 /\ UNCHANGED files
                       ELSE UNCHANGED <<pc, ret, files>>
       \/ \* runner.run_async raises: except Exception -> return None
          /\ RunnerEvents(SubAgents(prog)) # {}
          /\ pc' = "returned" /\ ret' = NoneVal
          /\ UNCHANGED streamVars
       \/ \* the stream ends before the break: lines 532-533 return final_results
          /\ StreamEnds
          /\ pc' = "returned" /\ ret' = <<"final_results">>
          /\ UNCHANGED <<files, final_results>>

(***************************************************************************)
(* run_travel_plan                                                         *)
(***************************************************************************)
run_travel_plan ==
    /\ prog = "travel" /\ pc = "run"
    /\ UNCHANGED <<prog, files, final_results, agentVars, gradeVars, ragVars, wrapper, videoVars, paperVars>>
    /\ \/ \E e \in RunnerEvents(SubAgents(prog)) :
            /\ Yield(e)
            /\ IF is_final_response(e)
               THEN /\ pc' = "returned"
                    \* content None: AttributeError -> except -> return None
                    /\ ret' = IF e.content = "none" THEN NoneVal ELSE TextOf(e)
               ELSE UNCHANGED <<pc, ret>>
       \/ /\ RunnerEvents(SubAgents(prog)) # {}
          /\ pc' = "returned" /\ ret' = NoneVal
          /\ UNCHANGED <<agentIdx, nonFinal, lastEvent, stream_ended>>
       \/ \* the stream ends: final_report is still None
          /\ StreamEnds
          /\ pc' = "returned" /\ ret' = NoneVal

(***************************************************************************)
(* call_agent_async of the AI consultant: no try/except.                   *)
(***************************************************************************)
call_agent_async ==
    /\ prog = "consultant" /\ pc = "run"
    /\ UNCHANGED <<prog, files, final_results, agentVars, gradeVars, ragVars, wrapper, videoVars, paperVars>>
    /\ \/ \E e \in RunnerEvents(SubAgents(prog)), escalate \in BOOLEAN :
            /\ Yield(e)
            /\ IF is_final_response(e)
               THEN /\ pc' = "returned"
                    /\ ret' = IF e.content # "none" THEN TextOf(e)
                              ELSE IF escalate THEN Str("Agent escalated")
                              ELSE Str("Agent did not produce a final response.")
               ELSE UNCHANGED <<pc, ret>>
       \/ /\ RunnerEvents(SubAgents(prog)) # {}
          /\ pc' = "raised" /\ ret' = Raised("runner")
          /\ UNCHANGED <<agentIdx, nonFinal, lastEvent, stream_ended>>
       \/ \* the stream ends: final_response_text keeps its initial value
          /\ StreamEnds
          /\ pc' = "returned" /\ ret' = Str("Agent did not produce a final response.")

(***************************************************************************)
(* run_agent of the legal team: no try/except.                             *)
(***************************************************************************)
run_agent ==
    /\ prog = "legal" /\ pc = "run"
    /\ UNCHANGED <<prog, files, final_results, agentVars, gradeVars, ragVars, wrapper, videoVars, paperVars>>
    /\ \/ \E e \in RunnerEvents(SubAgents(prog)) :
            /\ Yield(e)
            /\ IF is_final_response(e)
               THEN IF e.content = "none"
                    THEN pc' = "raised" /\ ret' = Raised("AttributeError")
                    ELSE pc' = "returned" /\ ret' = TextOf(e)
               ELSE UNCHANGED <<pc, ret>>
       \/ /\ RunnerEvents(SubAgents(prog)) # {}
          /\ pc' = "raised" /\ ret' = Raised("runner")
          /\ UNCHANGED <<agentIdx, nonFinal, lastEvent, stream_ended>>
       \/ \* the stream ends: line 154
          /\ StreamEnds
          /\ pc' = "returned" /\ ret' = Str("No response generated.")

(***************************************************************************)
(* run_support_inquiry: the condition reads the attribute                  *)
(* event.is_final_response without calling it.                             *)
(***************************************************************************)
run_support_inquiry ==
    /\ prog = "support" /\ pc = "run"
    /\ UNCHANGED <<prog, files, final_results, agentVars, gradeVars, ragVars, wrapper, videoVars, paperVars>>
    /\ \/ \E e \in RunnerEvents(SubAgents(prog)) :
            /\ Yield(e)
            /\ IF is_final_response_attr(e) /\ e.author = "qa_agent"
               THEN /\ pc' = "returned"
                    \* content None: AttributeError -> except -> return None
                    /\ ret' = IF e.content = "none" THEN NoneVal ELSE TextOf(e)
               ELSE UNCHANGED <<pc, ret>>
       \/ /\ RunnerEvents(SubAgents(prog)) # {}
          /\ pc' = "returned" /\ ret' = NoneVal
          /\ UNCHANGED <<agentIdx, nonFinal, lastEvent, stream_ended>>
       \/ \* the stream ends: final_response is still None
          /\ StreamEnds
          /\ pc' = "returned" /\ ret' = NoneVal

(***************************************************************************)
(* phi-experiments/aisAgents.py: class Agent.                              *)
(*                                                                         *)
(* An LLM response is kept as what run_single_loop reads of it:            *)
(*   pause, action : "PAUSE" in result, "Action" in result                 *)
(*   match  : the first match of r"Action: ([a-z_]+): (.+)": "none", a     *)
(*            tool that is in self.tools ("known") or one that is not      *)
(*   answer : "none" when "Answer" is not in the text, else which answer   *)
(* The regular expression is evaluated only under pause and action, so     *)
(* responses outside that case are listed with match "none".               *)
(***************************************************************************)
MaxAttempts == 3
MaxSteps == 10

LLMResponses ==
    {r \in [pause : BOOLEAN, action : BOOLEAN, match : {"none", "known", "unknown"},
            answer : {"none", "A", "B"}] :
        r.match # "none" => (r.pause /\ r.action)}

\* the str "No answer produced in 10 iterations" (it does not contain "Answer")
NoAnswer == [pause |-> FALSE, action |-> FALSE, match |-> "none",
             answer |-> "No answer produced in 10 iterations"]

HasAnswer(r) == r.answer \in {"A", "B"}

\* results.count(x)
Count(res, x) == Cardinality({k \in 1..Len(res) : res[k] = x})

Range(res) == {res[k] : k \in 1..Len(res)}

FirstResult(res) == {res[1]}

\* max(set(results), key=results.count): the first element of greatest count in
\* the iteration order of the set, which for str elements depends on the hash
\* seed of the run; any element of greatest count can be the one returned
MostCommon(res) ==
    {x \in Range(res) : \A y \in Range(res) : Count(res, y) <= Count(res, x)}

SkipThirdNever(att, res) == FALSE

\* attempt == 2 and results[0] == results[1]
SkipThird(att, res) == att = 2 /\ res[1] = res[2]

LoopGuardInclusive(n) == n <= MaxSteps

\* while i < 10
LoopGuard(n) == n < MaxSteps

\* Agent.__init__ and Agent.reset: the rendered system prompt is never empty
reset == messages' = <<"system">>

\* Agent.__call__ up to the call of the LLM: `if message:` appends the user message
UserMessage(message) == IF message # "" THEN <<"user">> ELSE <<>>

\* back in run_loop_and_compare with the result of run_single_loop
AfterSingleLoop(result) ==
    /\ results' = Append(results, result)
    /\ IF SkipThird(attempt, results')
       THEN pc' = "returned" /\ ret' = results'[1]
       ELSE pc' = "for" /\ UNCHANGED ret

\* for attempt in range(1, 4): self.reset(); run_single_loop starts
run_loop_and_compare ==
    /\ prog = "agent" /\ pc = "for" /\ attempt < MaxAttempts
    /\ attempt' = attempt + 1
    /\ reset
    /\ i' = 0 /\ next_prompt' = query /\ llm_calls' = 0
    /\ pc' = "while"
    /\ UNCHANGED <<prog, ret, results, query, streamVars, gradeVars, ragVars, wrapper, videoVars, paperVars>>

\* one iteration of the while loop of run_single_loop
run_single_loop ==
    /\ prog = "agent" /\ pc = "while" /\ LoopGuard(i)
    /\ UNCHANGED <<prog, query, attempt, streamVars, gradeVars, ragVars, wrapper, videoVars, paperVars>>
    /\ i' = i + 1
    \* self.__call__(next_prompt)
    /\ llm_calls' = llm_calls + 1
    /\ \/ \* llm.generate_response raises: nothing catches it up to the caller of
          \* run_loop_and_compare
          /\ messages' = messages \o UserMessage(next_prompt)
          /\ pc' = "raised" /\ ret' = Raised("llm")
          /\ UNCHANGED <<results, next_prompt>>
       \/ \E r \in LLMResponses, toolOk \in BOOLEAN :
            /\ messages' = messages \o UserMessage(next_prompt) \o <<"assistant">>
            /\ IF r.pause /\ r.action /\ r.match # "none"
               THEN /\ next_prompt' = IF r.match = "unknown" THEN "Observation: Tool not found"
                                      ELSE IF toolOk THEN "Observation: result"
                                      ELSE "Observation: Failed to execute tool"
                    /\ UNCHANGED <<pc, ret, results>>
               ELSE IF HasAnswer(r)
               THEN /\ AfterSingleLoop(r)
                    /\ UNCHANGED next_prompt
               ELSE UNCHANGED <<pc, ret, results, next_prompt>>

\* the while loop ran out: return "No answer produced in 10 iterations"
run_single_loop_exhausted ==
    /\ prog = "agent" /\ pc = "while" /\ ~LoopGuard(i)
    /\ AfterSingleLoop(NoAnswer)
    /\ UNCHANGED <<prog, query, attempt, i, next_prompt, llm_calls, messages,
                   streamVars, gradeVars, ragVars, wrapper, videoVars, paperVars>>

\* after the for loop: majority voting
run_loop_and_compare_vote ==
    /\ prog = "agent" /\ pc = "for" /\ attempt = MaxAttempts
    /\ pc' = "returned"
    /\ ret' \in MostCommon(results)
    /\ UNCHANGED <<prog, agentVars, streamVars, gradeVars, ragVars, wrapper, videoVars, paperVars>>

(***************************************************************************)
(* SelfRag.py: the graders.                                                *)
(*                                                                         *)
(* What the LLM API does with one grading request:                         *)
(*   kind "api_error" : chat.completions.create raises                     *)
(*   kind "not_json"  : the response text is not JSON (json.loads raises)  *)
(*   kind "non_object": the text is JSON but no object (null, "yes",       *)
(*                      ["yes"], 1); json.loads returns that value         *)
(*   kind "dict"      : the text is a JSON object; score is the value of   *)
(*                      its key "score", Absent when it has no such key,   *)
(*                      NonStr when the value is not a string (true, 1,    *)
(*                      null)                                              *)
(***************************************************************************)
Absent == "<absent>"
NonStr == "<not a str>"

Dict(score) == [kind |-> "dict", score |-> score]

LLMOutcomes ==
    {[kind |-> k, score |-> Absent] : k \in {"api_error", "not_json", "non_object"}}
    \cup {Dict(v) : v \in {"yes", "YES", "no", "maybe", Absent, NonStr}}

Failed(o) == o.kind \in {"api_error", "not_json"}

Pending == [kind |-> "pending", score |-> Absent]

llm_json_request_nocatch(o) == o

\* llm_json_request: what json.loads returned, or {"score": "no"} when anything
\* raised
llm_json_request(o) == IF Failed(o) THEN Dict("no") ELSE o

\* str.lower on the score strings of the model
Lower(v) ==
    CASE v = "YES" -> "yes"
      [] v = "NO"  -> "no"
      [] OTHER     -> v

\* score.get("score", "no").lower() raises AttributeError on this value: it is
\* no dict, or its score has no method lower
GetLowerRaises(d) == d.kind # "dict" \/ d.score = NonStr

\* score.get("score", "no").lower()
GetLower(d) == IF d.score = Absent THEN "no" ELSE Lower(d.score)

Doc(k) == <<"doc", k>>

gather_as_completed(byIndex, order) == [k \in 1..Len(byIndex) |-> byIndex[order[k]]]

\* asyncio.gather(*tasks): the results in the order of the tasks
gather(byIndex, order) == [k \in 1..Len(byIndex) |-> byIndex[k]]

\* [doc for doc, score in zip(documents, results) if keep(score)]
Filter(docs, res) ==
    LET F[k \in 0..Len(docs)] ==
            IF k = 0 THEN <<>>
            ELSE IF GetLower(res[k]) = "yes" THEN Append(F[k - 1], docs[k])
            ELSE F[k - 1]
    IN F[Len(docs)]

\* one of the concurrently issued grade_relevance_async requests completes
grade_relevance_async ==
    /\ prog = "grade" /\ pc = "gather"
    /\ \E k \in 1..Len(documents), o \in LLMOutcomes :
        /\ responses[k] = Pending
        /\ responses' = [responses EXCEPT ![k] = o]
        /\ scores' = [scores EXCEPT ![k] = llm_json_request(o)]
        /\ completed' = Append(completed, k)
    /\ UNCHANGED <<prog, pc, ret, documents, streamVars, agentVars, ragVars, wrapper, videoVars, paperVars>>

\* all requests are done: gather returns and the documents are filtered
grade_documents_tool ==
    /\ prog = "grade" /\ pc = "gather"
    /\ Len(completed) = Len(documents)
    /\ LET res == gather(scores, completed)
       IN IF \E k \in 1..Len(documents) : GetLowerRaises(res[k])
          THEN pc' = "raised" /\ ret' = Raised("AttributeError")
          ELSE pc' = "returned" /\ ret' = Filter(documents, res)
    /\ UNCHANGED <<prog, gradeVars, streamVars, agentVars, ragVars, wrapper, videoVars, paperVars>>

\* grade_hallucination_tool: one grading request, and its score
grade_hallucination_tool ==
    /\ prog = "hallucination" /\ pc = "call"
    /\ \E o \in LLMOutcomes :
        /\ responses' = <<o>>
        /\ scores' = <<llm_json_request(o)>>
        /\ IF GetLowerRaises(scores'[1])
           THEN pc' = "raised" /\ ret' = Raised("AttributeError")
           ELSE pc' = "returned" /\ ret' = Str(GetLower(scores'[1]))
    /\ UNCHANGED <<prog, documents, completed, streamVars, agentVars, ragVars, wrapper, videoVars, paperVars>>

(***************************************************************************)
(* SelfRag.py: the Self-RAG agent.  The order of the tool calls is not     *)
(* programmed: the five functions are registered as tools of an LlmAgent   *)
(* and its instruction describes the workflow to the LLM.  Whatever tool   *)
(* the agent LLM names in a function call is invoked; each tool prints its *)
(* "--- Tool Call" line when it starts.                                    *)
(***************************************************************************)
Tools ==
    {"retrieve_from_chroma_tool", "grade_documents_tool", "web_search_tool",
     "generate_answer_tool", "grade_hallucination_tool"}

\* what the agent LLM may emit next: a call of any registered tool, or its final
\* text
LLMMoves == {"final"} \cup (IF Len(tool_calls) < MaxToolCalls THEN Tools ELSE {})

\* the answers generated so far; the final text is the latest of them
Generated(calls) == Cardinality({k \in 1..Len(calls) : calls[k] = "generate_answer_tool"})

\* the agent LLM asks for a tool and the tool starts: it prints its "--- Tool
\* Call" line (lines 132, 139, 149, 155, 160) and then awaits its request
run_self_rag_tool_call ==
    /\ prog = "selfrag" /\ pc = "run"
    /\ \E t \in LLMMoves \cap Tools :
        tool_calls' = Append(tool_calls, t)
    /\ pc' = "tool"
    /\ UNCHANGED <<prog, ret, grades, streamVars, agentVars, gradeVars, wrapper, videoVars,
                   paperVars>>

\* the awaited request of the running tool is over: the tool returns, and the
\* events of the call pass through the loop of run_self_rag (they are not final
\* responses), or the tool raises out of runner.run_async and the except clause
\* of run_self_rag returns None
run_self_rag_tool_result ==
    /\ prog = "selfrag" /\ pc = "tool"
    /\ \E raises \in BOOLEAN, o \in LLMOutcomes :
        IF Last(tool_calls) = "grade_hallucination_tool"
        THEN IF GetLowerRaises(llm_json_request(o))
             THEN pc' = "returned" /\ ret' = NoneVal /\ UNCHANGED grades
             ELSE /\ grades' = Append(grades, GetLower(llm_json_request(o)))
                  /\ pc' = "run" /\ UNCHANGED ret
        ELSE IF raises
             THEN pc' = "returned" /\ ret' = NoneVal /\ UNCHANGED grades
             ELSE pc' = "run" /\ UNCHANGED <<ret, grades>>
    /\ UNCHANGED <<prog, tool_calls, streamVars, agentVars, gradeVars, wrapper, videoVars,
                   paperVars>>

\* run_self_rag: the agent's final response arrives; its text is returned
run_self_rag ==
    /\ prog = "selfrag" /\ pc = "run"
    /\ "final" \in LLMMoves
    /\ pc' = "returned"
    /\ \E hasContent \in BOOLEAN :
        ret' = IF hasContent THEN <<"answer", Generated(tool_calls)>> ELSE NoneVal
    /\ UNCHANGED <<prog, ragVars, streamVars, agentVars, gradeVars, wrapper, videoVars, paperVars>>

(***************************************************************************)
(* The tool wrappers.  What the HTTP call (or, for read_resume, the file)  *)
(* does: net "exception" when the request itself raises; else a status and *)
(* a body that is JSON with the expected key ("json_full"), JSON without   *)
(* it ("json_partial") or no JSON at all ("not_json").                     *)
(***************************************************************************)
IOOutcomes ==
    {[net |-> "exception", status |-> 0, body |-> "none"]}
    \cup [net : {"ok"}, status : {200, 404, 500},
          body : {"json_full", "json_partial", "not_json"}]

OkResult == Str("result")
ErrorString == Str("error string")

\* Tools/currency_exchg.py: no status check and no try/except
curr_conv(io, arg) ==
    IF io.net = "exception" THEN Raised("ConnectionError")
    ELSE IF io.body = "not_json" THEN Raised("JSONDecodeError")
    ELSE IF io.body = "json_partial" THEN Raised("KeyError")
    ELSE IF arg # "found" THEN ErrorString
    ELSE OkResult

\* gadk-resume.py search_internet: everything inside try/except Exception
search_internet(io) ==
    IF io.net = "exception" \/ io.status # 200 \/ io.body = "not_json" THEN ErrorString
    ELSE IF io.body = "json_partial" THEN Str("No organic results found.")
    ELSE OkResult

\* gadk-resume.py scrape_website: a URL that is not a str makes client.get
\* raise inside the try
scrape_website(io, arg) ==
    IF arg = "not_str" \/ io.net = "exception" \/ io.status # 200 THEN ErrorString
    ELSE OkResult

\* gadk-resume.py read_resume: net "exception" is open() raising, as it does
\* for a file_path of None
read_resume(io, arg) ==
    IF arg = "not_str" \/ io.net = "exception" THEN ErrorString ELSE OkResult

\* gadk-resume.py search_resume_content: the lines of what read_resume returned
\* that contain the query; read_resume's error string is searched like a resume.
\* query.lower() of a query that is not a str raises inside the try.
search_resume_content(io, arg) ==
    IF arg = "not_str" THEN ErrorString
    ELSE IF arg = "absent" THEN Str("")
    ELSE read_resume(io, "found")

\* Tools/currency_exchg.py
CurrencyTools == {"curr_conv"}

\* gadk-resume.py: the functions wrapped as FunctionTool
ResumeTools == {"search_internet", "scrape_website", "read_resume", "search_resume_content"}

\* what a wrapper depends on besides io: target_curr is among the rates or is
\* not; the query occurs in a line searched, does not, or is not a str (None)
WrapperArgs == {"found", "absent", "not_str"}

CallWrapper(w, io, arg) ==
    CASE w = "curr_conv"             -> curr_conv(io, arg)
      [] w = "search_internet"       -> search_internet(io)
      [] w = "scrape_website"        -> scrape_website(io, arg)
      [] w = "read_resume"           -> read_resume(io, arg)
      [] w = "search_resume_content" -> search_resume_content(io, arg)

\* a caller calls one wrapper
call_tool_wrapper ==
    /\ prog = "tools" /\ pc = "call"
    /\ \E w \in CurrencyTools \cup ResumeTools, io \in IOOutcomes, arg \in WrapperArgs :
        /\ wrapper' = [fn |-> w, io |-> io, arg |-> arg]
        /\ ret' = CallWrapper(w, io, arg)
        /\ pc' = IF ret'[1] = "raised" THEN "raised" ELSE "returned"
    /\ UNCHANGED <<prog, streamVars, agentVars, gradeVars, ragVars, videoVars, paperVars>>

(***************************************************************************)
(* Multimodal.py: _upload_video_if_not_exists.                             *)
(*                                                                         *)
(* video_file is kept as the name of its state: "PROCESSING", "ACTIVE",    *)
(* "FAILED", "NOSTATE" for an object without a state attribute,            *)
(* "NO_ATTRS" for one with neither a state nor a name attribute (None, a   *)
(* dict), "STATE_NONE" for one whose state attribute is None; "none"       *)
(* before the variable is bound.                                           *)
(***************************************************************************)
max_wait_time == 300
sleep_step == 2

FileStates == {"PROCESSING", "ACTIVE", "FAILED", "NOSTATE", "NO_ATTRS", "STATE_NONE"}

File(st) == <<"file", st>>

timed_out_exclusive(w) == w > max_wait_time

\* if wait_time >= max_wait_time
timed_out(w) == w >= max_wait_time

\* hasattr(video_file, 'state') and video_file.state.name == "PROCESSING":
\* "True", "False", or "AttributeError" when state is None
still_processing(st) ==
    IF st \in {"NOSTATE", "NO_ATTRS"} THEN "False"
    ELSE IF st = "STATE_NONE" THEN "AttributeError"
    ELSE IF st = "PROCESSING" THEN "True"
    ELSE "False"

\* video_file.name of line 196 can be read
has_name(st) == st # "NO_ATTRS"

\* lines 150-159: the local file is checked, then client.files.get looks the
\* remote file up; it raises when there is none, and may raise for any other
\* reason (network, authorisation) when there is one
upload_video_check ==
    /\ prog = "video" /\ pc = "start"
    /\ IF ~video_exists
       THEN /\ pc' = "returned" /\ ret' = NoneVal /\ outcome' = "missing"
            /\ UNCHANGED video_file
       ELSE \/ /\ remote_exists
               /\ \E st \in FileStates : video_file' = st
               /\ pc' = "wait"
               /\ UNCHANGED <<ret, outcome>>
            \/ /\ pc' = "upload"
               /\ UNCHANGED <<ret, outcome, video_file>>
    /\ UNCHANGED <<prog, video_exists, remote_exists, wait_time, polls, uploads,
                   streamVars, agentVars, gradeVars, ragVars, wrapper, paperVars>>

\* lines 162-175: the except clause of the lookup uploads the file
upload_video_upload ==
    /\ prog = "video" /\ pc = "upload"
    /\ uploads' = uploads + 1
    /\ \/ \E st \in FileStates :
            /\ video_file' = st
            /\ pc' = "wait"
            /\ UNCHANGED <<ret, outcome>>
       \/ /\ pc' = "returned" /\ ret' = NoneVal /\ outcome' = "upload_failed"
          /\ UNCHANGED video_file
    /\ UNCHANGED <<prog, video_exists, remote_exists, wait_time, polls,
                   streamVars, agentVars, gradeVars, ragVars, wrapper, paperVars>>

\* lines 181-194: one iteration of the waiting loop that gets as far as the poll
upload_video_poll ==
    /\ prog = "video" /\ pc = "wait"
    /\ still_processing(video_file) = "True"
    /\ ~timed_out(wait_time)
    /\ wait_time' = wait_time + sleep_step
    /\ polls' = polls + 1
    /\ \/ \E st \in FileStates :
            /\ video_file' = st
            /\ UNCHANGED <<pc, ret, outcome>>
       \/ /\ pc' = "returned" /\ ret' = NoneVal /\ outcome' = "status_error"
          /\ UNCHANGED video_file
    /\ UNCHANGED <<prog, video_exists, remote_exists, uploads,
                   streamVars, agentVars, gradeVars, ragVars, wrapper, paperVars>>

\* lines 181-184: the loop condition holds and the time is up
upload_video_timeout ==
    /\ prog = "video" /\ pc = "wait"
    /\ still_processing(video_file) = "True"
    /\ timed_out(wait_time)
    /\ pc' = "returned" /\ ret' = NoneVal /\ outcome' = "timeout"
    /\ UNCHANGED <<prog, video_exists, remote_exists, video_file, wait_time, polls, uploads,
                   streamVars, agentVars, gradeVars, ragVars, wrapper, paperVars>>

\* lines 181, 196-197: the loop condition fails; video_file is returned
upload_video_return ==
    /\ prog = "video" /\ pc = "wait"
    /\ still_processing(video_file) = "False"
    /\ has_name(video_file)
    /\ pc' = "returned" /\ ret' = File(video_file) /\ outcome' = "ready"
    /\ UNCHANGED <<prog, video_exists, remote_exists, video_file, wait_time, polls, uploads,
                   streamVars, agentVars, gradeVars, ragVars, wrapper, paperVars>>

\* lines 181, 196: evaluating the loop condition raises, or the loop is left and
\* the log line reads a name the object does not have; no try encloses either
upload_video_raise ==
    /\ prog = "video" /\ pc = "wait"
    /\ \/ still_processing(video_file) = "AttributeError"
       \/ still_processing(video_file) = "False" /\ ~has_name(video_file)
    /\ pc' = "raised" /\ ret' = Raised("AttributeError") /\ outcome' = "raised"
    /\ UNCHANGED <<prog, video_exists, remote_exists, video_file, wait_time, polls, uploads,
                   streamVars, agentVars, gradeVars, ragVars, wrapper, paperVars>>

(***************************************************************************)
(* Tools/arxiv.py: Papers.download_papers and download_papers_with_retry.  *)
(*                                                                         *)
(* What the file system and the two web services do during one call of     *)
(* download_papers is a record: mkdir is "ok" or "error" (os.makedirs),    *)
(* api is the outcome of the listing request, pdfs the outcome of each     *)
(* paper of the listing in turn ("malformed": an entry without 'title' or  *)
(* 'doi').                                                                 *)
(***************************************************************************)
MaxPapers == 2

stop_after_attempt == 3

PdfOutcomes == {"ok", "non200", "exception", "malformed"}

PaperLists == UNION {[1..n -> PdfOutcomes] : n \in 1..MaxPapers}

NoEnv == [mkdir |-> "none", api |-> "none", pdfs |-> <<>>]

DownloadEnvs ==
    {[mkdir |-> "error", api |-> "none", pdfs |-> <<>>]}
    \cup {[mkdir |-> "ok", api |-> a, pdfs |-> <<>>] :
             a \in {"exception", "non200", "not_json", "empty"}}
    \cup {[mkdir |-> "ok", api |-> "papers", pdfs |-> ps] : ps \in PaperLists}

DownloadArgs == [server : {"arxiv", "medrxiv", "biorxiv"}, dates : BOOLEAN]

\* lines 81-83 of the script
ScriptArgs == [server |-> "medrxiv", dates |-> TRUE]

RECURSIVE arxiv_loop(_, _)
\* lines 31-35: paper.download_pdf is not guarded
arxiv_loop(pdfs, k) ==
    IF k > Len(pdfs) THEN "returned"
    ELSE IF pdfs[k] = "ok" THEN arxiv_loop(pdfs, k + 1)
    ELSE "raised"

RECURSIVE medrxiv_loop(_, _)
\* lines 58-73: the subscripts of lines 59-60 are outside the try, the request
\* and the status test inside it
medrxiv_loop(pdfs, k) ==
    IF k > Len(pdfs) THEN "returned"
    ELSE IF pdfs[k] = "malformed" THEN "raised"
    ELSE medrxiv_loop(pdfs, k + 1)

download_papers_raise_for_status(args, env) ==
    IF env.mkdir = "error" THEN "raised"
    ELSE IF args.server = "arxiv"
    THEN IF env.api = "empty" THEN "returned"
         ELSE IF env.api = "papers" THEN arxiv_loop(env.pdfs, 1)
         ELSE "raised"
    ELSE IF args.server = "medrxiv"
    THEN IF ~args.dates THEN "returned"
         ELSE IF env.api \in {"exception", "not_json", "non200"} THEN "raised"
         ELSE IF env.api = "empty" THEN "returned"
         ELSE arxiv_loop(env.pdfs, 1)
    ELSE "returned"

\* "returned" or "raised", as download_papers ends under env
download_papers(args, env) ==
    IF env.mkdir = "error" THEN "raised"
    ELSE IF args.server = "arxiv"
    THEN IF env.api = "empty" THEN "returned"
         ELSE IF env.api = "papers" THEN arxiv_loop(env.pdfs, 1)
         ELSE "raised"
    ELSE IF args.server = "medrxiv"
    THEN IF ~args.dates THEN "returned"
         ELSE IF env.api \in {"exception", "not_json"} THEN "raised"
         ELSE IF env.api \in {"non200", "empty"} THEN "returned"
         ELSE medrxiv_loop(env.pdfs, 1)
    ELSE "returned"

\* one attempt of the tenacity wrapper: the call, then its decision to return,
\* to try again (after wait_fixed(10)) or to give up with RetryError
download_papers_with_retry ==
    /\ prog = "papers" /\ pc = "call"
    /\ \E env \in DownloadEnvs :
          LET result == download_papers(dl_args, env)
              log    == Append(dl_log, result)
          IN /\ dl_env' = env
             /\ dl_calls' = dl_calls + 1
             /\ dl_log' = log
             /\ IF result = "returned"
                THEN pc' = "returned" /\ ret' = NoneVal
                ELSE IF Len(log) >= stop_after_attempt
                THEN pc' = "raised" /\ ret' = Raised("RetryError")
                ELSE UNCHANGED <<pc, ret>>
    /\ UNCHANGED <<prog, dl_args, dl_run, streamVars, agentVars, gradeVars, ragVars, wrapper, videoVars>>

\* python arxiv.py: line 4 `import arxiv` finds the file itself, whose lines
\* 79-99 run as module arxiv; when that call has returned the import is over and
\* the same lines run as __main__, which calls download_papers_with_retry again.
\* A RetryError inside the import ends the process at line 4.
script_main ==
    /\ prog = "papers" /\ pc = "returned" /\ dl_run = "import"
    /\ dl_run' = "main"
    /\ pc' = "call" /\ ret' = NoneVal
    /\ dl_log' = <<>> /\ dl_env' = NoEnv
    /\ UNCHANGED <<prog, dl_args, dl_calls, streamVars, agentVars, gradeVars, ragVars, wrapper,
                   videoVars>>

StreamProgs == {"job", "travel", "consultant", "legal", "support"}

InitPc(p) ==
    CASE p = "agent"         -> "for"
      [] p = "grade"         -> "gather"
      [] p = "hallucination" -> "call"
      [] p = "tools"         -> "call"
      [] p = "video"         -> "start"
      [] p = "papers"        -> "call"
      [] OTHER               -> "run"

Init ==
    /\ prog \in StreamProgs \cup {"agent", "grade", "hallucination", "selfrag", "tools", "video", "papers"}
    /\ pc = InitPc(prog)
    /\ ret = NoneVal
    /\ agentIdx = 1 /\ nonFinal = 0 /\ lastEvent = NoEvent /\ stream_ended = FALSE
    /\ files = <<>> /\ final_results = {}
    /\ query \in {"query", ""}
    /\ query = "" => prog = "agent"
    /\ attempt = 0 /\ results = <<>> /\ i = 0 /\ next_prompt = query
    /\ llm_calls = 0
    \* Agent.__init__ has appended the system message
    /\ messages = IF prog = "agent" THEN <<"system">> ELSE <<>>
    /\ \E n \in 0..MaxDocs :
        /\ n > 0 => prog = "grade"
        /\ documents = [k \in 1..n |-> Doc(k)]
        /\ responses = [k \in 1..n |-> Pending]
        /\ scores = [k \in 1..n |-> Pending]
    /\ completed = <<>>
    /\ tool_calls = <<>> /\ grades = <<>>
    /\ wrapper = [fn |-> "none", io |-> [net |-> "none", status |-> 0, body |-> "none"],
                  arg |-> "none"]
    /\ video_exists \in BOOLEAN /\ remote_exists \in BOOLEAN
    /\ (~video_exists \/ remote_exists) => prog = "video"
    /\ video_file = "none" /\ wait_time = 0 /\ polls = 0 /\ uploads = 0
    /\ outcome = "none"
    /\ dl_args \in DownloadArgs
    /\ dl_args # ScriptArgs => prog = "papers"
    /\ dl_log = <<>> /\ dl_env = NoEnv /\ dl_calls = 0
    /\ dl_run \in {"call", "import"}
    /\ dl_run = "import" => (prog = "papers" /\ dl_args = ScriptArgs)

Next ==
    \/ run_job_application_workflow
    \/ run_travel_plan
    \/ call_agent_async
    \/ run_agent
    \/ run_support_inquiry
    \/ run_loop_and_compare
    \/ run_single_loop
    \/ run_single_loop_exhausted
    \/ run_loop_and_compare_vote
    \/ grade_relevance_async
    \/ grade_documents_tool
    \/ grade_hallucination_tool
    \/ run_self_rag_tool_call
    \/ run_self_rag_tool_result
    \/ run_self_rag
    \/ call_tool_wrapper
    \/ upload_video_check
    \/ upload_video_upload
    \/ upload_video_poll
    \/ upload_video_timeout
    \/ upload_video_return
    \/ upload_video_raise
    \/ download_papers_with_retry
    \/ script_main

Spec == Init /\ [][Next]_vars

(***************************************************************************)
(* The claims.                                                             *)
(***************************************************************************)

\* C1: every tool / HTTP wrapper returns the parsed or formatted result for a
\* good 200 response and catches every failure of the underlying call (network
\* exception, non-200 status, malformed payload), reporting it as a returned
\* error string or canned fallback; no exception reaches the caller.
WrappersReportFailuresAsStrings ==
    (prog = "tools" /\ pc # "call") =>
        /\ pc = "returned"
        /\ ret[1] = "str"
        /\ (wrapper.io.net = "exception" \/ wrapper.io.status # 200) =>
              ret \in {ErrorString, Str("No organic results found.")}
        /\ (wrapper.io.net = "ok" /\ wrapper.io.status = 200
              /\ wrapper.io.body = "json_full" /\ wrapper.arg = "found") => ret = OkResult

\* C2: in the job-application pipeline the sub-agents respond in the listed
\* order, each after the final response of the one before; tailored_resume.md
\* is written before interview_materials.md, and the event loop ends at the
\* final response of interview_preparer: no event is handled after it, and a
\* run whose runner neither raised nor ran out of events before it returns
\* there with all four responses and both files.
JobPipelineOrder ==
    prog = "job" =>
        /\ \A k \in 1..Len(files) :
              files[k] = "interview_materials.md" =>
                  \E j \in 1..(k - 1) : files[j] = "tailored_resume.md"
        /\ "personal_profiler" \in final_results => "tech_job_researcher" \in final_results
        /\ "resume_strategist" \in final_results => "personal_profiler" \in final_results
        /\ "interview_preparer" \in final_results => "resume_strategist" \in final_results
        /\ pc = "run" => "interview_preparer" \notin final_results
        /\ stream_ended => "interview_preparer" \notin final_results
        /\ (lastEvent = [author |-> "interview_preparer", final |-> TRUE, content |-> "text"]
              /\ ret # NoneVal) => pc = "returned"
        /\ (pc = "returned" /\ ret # NoneVal /\ ~stream_ended) =>
              /\ lastEvent = [author |-> "interview_preparer", final |-> TRUE,
                              content |-> "text"]
              /\ files = <<"tailored_resume.md", "interview_materials.md">>
              /\ final_results = {"tech_job_researcher", "personal_profiler",
                                  "resume_strategist", "interview_preparer"}

JobBothFilesWritten ==
    /\ prog = "job" /\ pc = "returned" /\ ~stream_ended
    /\ ret = <<"final_results">>
    /\ files = <<"tailored_resume.md", "interview_materials.md">>

\* C3: run_travel_plan, call_agent_async and run_agent return the final text
\* of the whole pipeline: the text they return is the final response of the
\* last sub-agent, produced after all earlier sub-agents have run.
PipelineReturnsLastAgentsResponse ==
    (prog \in {"travel", "consultant", "legal"} /\ pc = "returned" /\ ret[1] = "text") =>
        /\ ret = <<"text", Last(SubAgents(prog)), TRUE>>
        /\ agentIdx > Len(SubAgents(prog))

\* C4: run_support_inquiry ends its loop and returns a value only on an event
\* that is a final response and is authored by qa_agent; no event of
\* support_agent and no non-final event of qa_agent ends the loop or becomes
\* the returned text.
SupportStopsOnlyAtQaFinal ==
    (prog = "support" /\ pc = "returned" /\ ret # NoneVal) =>
        /\ lastEvent.author = "qa_agent"
        /\ lastEvent.final
        /\ ret = <<"text", "qa_agent", TRUE>>

\* C5: when the first two attempts of run_single_loop return equal results,
\* run_loop_and_compare returns that result after exactly two attempts; a
\* third attempt is never started.
FirstTwoEqualReturnsAfterTwo ==
    (prog = "agent" /\ Len(results) >= 2 /\ results[1] = results[2]) =>
        /\ pc = "returned"
        /\ attempt = 2
        /\ Len(results) = 2
        /\ ret = results[1]

TwoEqualAttemptsReturned ==
    /\ prog = "agent" /\ pc = "returned"
    /\ Len(results) = 2 /\ results[1] = results[2]
    /\ HasAnswer(results[1])

\* C6: when the first two attempts differ, exactly one third attempt is run and
\* the value returned is the most common of the three results: a value that two
\* of the three attempts share is the one returned, and the returned value is
\* always one of the three results.
ThirdAttemptMajority ==
    (prog = "agent" /\ Len(results) >= 2 /\ results[1] # results[2]) =>
        /\ attempt <= 3
        /\ Len(results) <= 3
        /\ pc = "returned" =>
              /\ attempt = 3
              /\ Len(results) = 3
              /\ ret \in {results[1], results[2], results[3]}
              /\ \A a, b \in 1..3 : (a # b /\ results[a] = results[b]) => ret = results[a]

MajorityOfThreeReturned ==
    /\ prog = "agent" /\ pc = "returned"
    /\ Len(results) = 3
    /\ results[1] # results[2] /\ results[2] = results[3]
    /\ ret = results[3]

\* C7: one run_single_loop makes at most 10 LLM calls and then ends; what it
\* returns is an LLM response containing "Answer" or the string "No answer
\* produced in 10 iterations" (the latter after the 10th call); an 11th call
\* never happens.
SingleLoopBounded ==
    prog = "agent" =>
        /\ llm_calls <= 10
        /\ llm_calls = i
        /\ Len(messages) <= 21
        /\ \A k \in 1..Len(results) : HasAnswer(results[k]) \/ results[k] = NoAnswer
        /\ (pc \in {"for", "returned"} /\ Len(results) >= 1
              /\ results[Len(results)] = NoAnswer) => llm_calls = 10
        /\ (pc = "while" /\ llm_calls = 10) =>
              (~ENABLED run_single_loop /\ ENABLED run_single_loop_exhausted)

TenCallsNoAnswer ==
    /\ prog = "agent" /\ pc = "for"
    /\ Len(results) = 1 /\ results[1] = NoAnswer
    /\ llm_calls = 10

\* C8: grade_documents_tool returns exactly the input documents whose own
\* relevance grade is "yes" in any letter case, in their original order,
\* whatever order the concurrent grading requests complete in.
OwnGradeRelevant(k) == responses[k].kind = "dict" /\ responses[k].score \in {"yes", "YES"}

ExpectedRelevant ==
    LET F[k \in 0..Len(documents)] ==
            IF k = 0 THEN <<>>
            ELSE IF OwnGradeRelevant(k) THEN Append(F[k - 1], documents[k])
            ELSE F[k - 1]
    IN F[Len(documents)]

GradeKeepsOwnRelevantDocs ==
    (prog = "grade" /\ pc = "returned") => ret = ExpectedRelevant

GradedOutOfOrder ==
    /\ prog = "grade" /\ pc = "returned"
    /\ Len(documents) = 3
    /\ completed = <<3, 1, 2>>
    /\ ret = <<Doc(1), Doc(3)>>

\* a response that is not the expected JSON object with a string score
Unexpected(o) == o.kind \in {"api_error", "not_json", "non_object"} \/ o.score = NonStr

\* C9: any failure of a grading request (API error, response text that is not
\* the expected JSON) makes llm_json_request return {"score": "no"};
\* grade_documents_tool then drops that document and still grades the others,
\* grade_hallucination_tool returns "no", and neither tool raises.
GradingAlwaysFailsSafe ==
    /\ prog \in {"grade", "hallucination"} =>
          /\ pc # "raised"
          /\ \A k \in 1..Len(responses) :
                Unexpected(responses[k]) => scores[k] = Dict("no")
    /\ (prog = "grade" /\ pc = "returned") =>
          \A k \in 1..Len(documents) :
              Unexpected(responses[k]) => \A j \in 1..Len(ret) : ret[j] # documents[k]
    /\ (prog = "hallucination" /\ pc # "call" /\ Unexpected(responses[1])) =>
          (pc = "returned" /\ ret = Str("no"))

\* C9 as amended: a grading request that raises inside llm_json_request (API
\* error, response text that is not JSON) makes it return {"score": "no"};
\* grade_documents_tool then drops that document and still grades the others,
\* and grade_hallucination_tool returns "no".  A response that is JSON but is
\* not an object, or whose score is not a string, is returned unchanged, and
\* the tool that receives it raises; the tools raise in no other case.
GradingFailsSafeWhenRequestRaises ==
    /\ prog \in {"grade", "hallucination"} =>
          /\ \A k \in 1..Len(responses) :
                /\ Failed(responses[k]) => scores[k] = Dict("no")
                /\ (~Failed(responses[k]) /\ responses[k] # Pending) =>
                      scores[k] = responses[k]
          /\ pc = "raised" =>
                \E k \in 1..Len(responses) :
                    responses[k].kind = "non_object" \/ responses[k].score = NonStr
          /\ pc = "returned" =>
                \A k \in 1..Len(responses) :
                    responses[k].kind # "non_object" /\ responses[k].score # NonStr
    /\ (prog = "grade" /\ pc = "returned") =>
          \A k \in 1..Len(documents) :
              /\ Failed(responses[k]) => \A j \in 1..Len(ret) : ret[j] # documents[k]
              /\ OwnGradeRelevant(k) => \E j \in 1..Len(ret) : ret[j] = documents[k]
    /\ (prog = "hallucination" /\ pc # "call" /\ Failed(responses[1])) =>
          (pc = "returned" /\ ret = Str("no"))

FailedRequestDropped ==
    /\ prog = "grade" /\ pc = "returned"
    /\ Len(documents) = 3
    /\ responses[1].kind = "api_error" /\ responses[2].kind = "not_json"
    /\ ret = <<Doc(3)>>

\* C10: in every run of the Self-RAG agent the tools are invoked in the order
\* retrieve_from_chroma_tool, grade_documents_tool, generate_answer_tool,
\* grade_hallucination_tool; web_search_tool only after grade_hallucination_tool
\* returned "no" for the first answer; a "yes" ends the run with that answer;
\* generate_answer_tool is invoked at most twice.
WorkflowOrder ==
    <<"retrieve_from_chroma_tool", "grade_documents_tool", "generate_answer_tool",
      "grade_hallucination_tool", "web_search_tool", "generate_answer_tool">>

IsPrefix(s, t) == Len(s) <= Len(t) /\ \A k \in 1..Len(s) : s[k] = t[k]

SelfRagWorkflowOrder ==
    prog = "selfrag" =>
        /\ IsPrefix(tool_calls, WorkflowOrder)
        /\ (\E k \in 1..Len(tool_calls) : tool_calls[k] = "web_search_tool") =>
              (Len(grades) >= 1 /\ grades[1] = "no")
        /\ (Len(grades) >= 1 /\ grades[1] = "yes") =>
              /\ Len(tool_calls) = 4
              /\ (pc = "returned" /\ ret # NoneVal) => ret = <<"answer", 1>>
        /\ Generated(tool_calls) <= 2

\* C11: _upload_video_if_not_exists returns None whenever the local file is
\* missing, the upload fails, a status check fails, processing times out or the
\* remote processing ended in a failed state, and a returned file object is
\* never in state PROCESSING.
UploadReturnsOnlyReadyVideo ==
    (prog = "video" /\ pc = "returned") =>
        /\ outcome \in {"missing", "upload_failed", "status_error", "timeout"}
              => ret = NoneVal
        /\ video_file = "FAILED" => ret = NoneVal
        /\ ret # File("PROCESSING")

\* C12: client.files.upload is called at most once per call, and only when no
\* remote file with the derived name exists.
UploadOnlyWhenRemoteAbsent ==
    prog = "video" =>
        /\ uploads <= 1
        /\ uploads >= 1 => ~remote_exists

\* C13: the waiting loop polls the file status at most 150 times, in 2-second
\* steps up to 300 seconds; in every state of the loop one of its exits or its
\* next poll is possible, and once 300 seconds have accumulated with the file
\* still PROCESSING the only continuation is the timeout, which returns None.
WaitLoopBounded ==
    prog = "video" =>
        /\ polls <= 150
        /\ wait_time = 2 * polls
        /\ wait_time <= 300
        /\ pc = "wait" =>
              ENABLED (upload_video_poll \/ upload_video_timeout \/ upload_video_return
                       \/ upload_video_raise)
        /\ (pc = "wait" /\ video_file = "PROCESSING" /\ wait_time >= 300) =>
              /\ ~ENABLED upload_video_poll
              /\ ~ENABLED upload_video_return
              /\ ENABLED upload_video_timeout
        /\ outcome = "timeout" =>
              /\ pc = "returned" /\ ret = NoneVal
              /\ video_file = "PROCESSING" /\ wait_time = 300

\* C13 witness: a call that polled 150 times and timed out
WaitLoopTimedOut ==
    /\ prog = "video" /\ pc = "returned"
    /\ outcome = "timeout" /\ ret = NoneVal
    /\ polls = 150 /\ wait_time = 300

\* the failures of a medRxiv run that download_papers handles itself: a non-200
\* answer of the API, or papers whose download failed while every entry is
\* well formed
SwallowedFailure ==
    /\ dl_args = ScriptArgs
    /\ dl_env.mkdir = "ok"
    /\ \/ dl_env.api = "non200"
       \/ /\ dl_env.api = "papers"
          /\ \A k \in 1..Len(dl_env.pdfs) : dl_env.pdfs[k] # "malformed"
          /\ \E k \in 1..Len(dl_env.pdfs) : dl_env.pdfs[k] \in {"non200", "exception"}

\* C14: one call of download_papers_with_retry calls download_papers at most 3
\* times (the script, which runs its body twice, at most 6), every call but the
\* last one raised, after a third raising call the error reaches the caller, and a call
\* that met a non-200 API response or a failed PDF download returns and is
\* the last one.
RetryAtMostThreeTimes ==
    prog = "papers" =>
        /\ Len(dl_log) <= 3
        /\ dl_calls <= (IF dl_run = "main" THEN 3 + Len(dl_log) ELSE Len(dl_log))
        /\ dl_calls >= Len(dl_log)
        /\ \A k \in 1..(Len(dl_log) - 1) : dl_log[k] = "raised"
        /\ pc = "call" =>
              /\ Len(dl_log) < 3
              /\ \A k \in 1..Len(dl_log) : dl_log[k] = "raised"
        /\ pc = "returned" =>
              /\ Len(dl_log) >= 1
              /\ dl_log[Len(dl_log)] = "returned"
        /\ pc = "raised" =>
              /\ Len(dl_log) = 3
              /\ \A k \in 1..3 : dl_log[k] = "raised"
              /\ ret = Raised("RetryError")
        /\ (Len(dl_log) >= 1 /\ dl_log[Len(dl_log)] = "raised" /\ Len(dl_log) < 3) =>
              /\ pc = "call"
              /\ ENABLED download_papers_with_retry
        /\ (Len(dl_log) >= 1 /\ SwallowedFailure) =>
              /\ dl_log[Len(dl_log)] = "returned"
              /\ pc = "returned"
              /\ ~ENABLED download_papers_with_retry

\* C14 witness: the second attempt, made after the first one raised, met a
\* failed download, returned, and no third attempt follows
SwallowedFailureEndsRetries ==
    /\ prog = "papers" /\ pc = "returned"
    /\ dl_log = <<"raised", "returned">>
    /\ SwallowedFailure

====
